---- MODULE Spec2Model ----
(***************************************************************************)
(* streamstaff: background workers that pull chunks from an input stream,  *)
(* buffer them, extract fixed-length windows, transform them (PSD, filter, *)
(* pass-through) and push the result to an output stream.                  *)
(*                                                                         *)
(* Representation.                                                         *)
(*   - A Python string is a sequence of one-character strings, so that     *)
(*     concatenation (+, "_".join, str()) is sequence concatenation.       *)
(*   - A Python optional argument (None or a value) is a sequence of       *)
(*     length at most one: << >> is None, <<v>> is the value v.            *)
(*   - An input row is its arrival index on the inlet (0, 1, 2, ...); a    *)
(*     pulled chunk is a run of consecutive rows, each with the input      *)
(*     stream's channel_count columns.                                     *)
(*   - A pushed chunk records its shape and its provenance: the number of  *)
(*     rows, for every column the input column it was computed from, the   *)
(*     input rows it was computed from, and whether the payload carries    *)
(*     the timestamp list of the pull.                                     *)
(***************************************************************************)
EXTENDS Integers, Sequences, FiniteSets, TLC

VARIABLES
    inStream,   \* the input StreamInfo and what the inlet delivers
    pc,         \* per worker: absent | idle | setup_failed | running | faulted
    started,    \* per worker: number of threads started for it
    cfg,        \* per worker: the arguments the transform was requested with
    outStream,  \* per worker: the output StreamInfo (descriptor)
    buffer,     \* per worker: the backend's local `buffer` (rows)
    nPulls,     \* per worker: pull_chunk calls made
    nRows,      \* per worker: rows pulled so far
    appended,   \* per worker: rows appended to `buffer` so far
    taken,      \* per worker: the windows sliced off `buffer`, in order
    pushed,     \* per worker: the chunks outlet.push_chunk accepted, in order
    error,      \* per worker: the exception that ended its setup or its thread
    lookup,     \* the caller's get_stream_info call: arguments and outcome
    plot        \* the caller's plotTimeDomain / plotFreqDomain call

vars == <<inStream, pc, started, cfg, outStream, buffer, nPulls, nRows,
          appended, taken, pushed, error, lookup, plot>>

Workers == {"w1", "w2"}

(***************************************************************************)
(* Bounds of the exploration.                                              *)
(***************************************************************************)
MaxPulls == 3     \* pulls explored per worker on an irregular stream
MaxChunk == 3     \* largest irregular chunk, in rows
MaxWindow == 2    \* largest window_length / buf_size on an irregular stream
ScenarioPulls == 9 \* pulls explored on the synthetic 32-row stream
MaxStreams == 3   \* most streams a resolve finds on the network
MaxIndex == 3     \* largest index asked of get_stream_info
ConcurrentPulls == 2 \* pulls explored per worker when two workers run
PlotPulls == 3    \* pulls explored in a plotting loop

(***************************************************************************)
(* Python values.                                                          *)
(***************************************************************************)
None == << >>
Some(x) == <<x>>
IsNone(o) == o = << >>
Val(o) == o[1]

S_default == <<"d", "e", "f", "a", "u", "l", "t">>
S_PSD == <<"P", "S", "D">>
S_dashPSD == <<"-", "P", "S", "D">>
S_dashdash == <<"-", "-">>
S_filter == <<"f", "i", "l", "t", "e", "r">>
S_butter == <<"b", "u", "t", "t", "e", "r">>
S_cheby == <<"c", "h", "e", "b", "y">>
S_underscore == <<"_">>
S_window_length == <<"w", "i", "n", "d", "o", "w", "_", "l", "e", "n", "g", "t", "h">>
S_nperseg == <<"n", "p", "e", "r", "s", "e", "g">>
S_EEG == <<"E", "E", "G">>
S_custom == <<"o", "u", "t">>

DigitChar(d) == <<"0", "1", "2", "3", "4", "5", "6", "7", "8", "9">>[d + 1]

RECURSIVE IntToStr(_)
\* str(n) for an int n >= 0: its decimal digits
IntToStr(n) == IF n < 10 THEN <<DigitChar(n)>>
               ELSE IntToStr(n \div 10) \o <<DigitChar(n % 10)>>

\* the digit a character stands for
DigitVal(ch) == CHOOSE d \in 0..9 : DigitChar(d) = ch

RECURSIVE StrToInt(_)
\* int(s) for a non-empty string of decimal digits
StrToInt(s) == IF Len(s) = 1 THEN DigitVal(s[1])
               ELSE 10 * StrToInt(SubSeq(s, 1, Len(s) - 1)) + DigitVal(s[Len(s)])

\* desc().child_value(key): the text of the first child named key, "" if none
ChildValue(meta, key) ==
    LET hits == {i \in 1..Len(meta) : meta[i][1] = key}
    IN  IF hits = {} THEN << >>
        ELSE meta[CHOOSE i \in hits : \A j \in hits : i <= j][2]

\* range(a, b) as a sequence
Range(a, b) == [i \in 1..(IF b > a THEN b - a ELSE 0) |-> a + i - 1]

Min(a, b) == IF a < b THEN a ELSE b

\* s[lo:hi] for 0 <= lo, 0 <= hi (Python clamps both to len(s))
Slice(s, lo, hi) ==
    LET l == Min(lo, Len(s))
        h == Min(hi, Len(s))
    IN  IF h > l THEN SubSeq(s, l + 1, h) ELSE << >>

\* s[lo:] for 0 <= lo
SliceFrom(s, lo) == Slice(s, lo, Len(s))


(***************************************************************************)
(* The input stream (environment).  `sizes` are the row counts a pull may  *)
(* return and `nchunks` the number of pulls explored; both describe the    *)
(* data source, not the program.                                           *)
(***************************************************************************)
ChannelCounts == {4, 5}
SyntheticSizes == {32}
DefaultWindowLength == 256
DefaultBufSize == 128
BufferCols == 5

IrregularStreams ==
    [name : {S_EEG}, channel_count : ChannelCounts, nominal_srate : {256},
     sizes : {0..MaxChunk}, nchunks : {MaxPulls}]

SyntheticStreams ==
    [name : {S_EEG}, channel_count : ChannelCounts, nominal_srate : {256},
     sizes : {SyntheticSizes}, nchunks : {ScenarioPulls}]

IsSynthetic(s) == s.sizes = SyntheticSizes

(***************************************************************************)
(* The arguments a caller may pass.                                        *)
(***************************************************************************)
ChannelArgs == {None, Some(<<2, 4>>), Some(<<4, 2>>), Some(<<0>>), Some(<<6>>)}
Methods == {"periodogram", "welch", "bogus"}
NameArgs == {S_default, S_custom}
WindowLengths(s) == IF IsSynthetic(s) THEN {DefaultWindowLength} ELSE 1..MaxWindow
NpersegArgs(s) ==
    {None} \cup {Some(n) : n \in (IF IsSynthetic(s) THEN {64, 25} ELSE 1..MaxWindow)}
NoverlapArgs == {None, Some(1)}
FilterTypes == {S_butter, S_cheby}
StreamTypes == {S_default}

PsdConfigs(s) ==
    [kind : {"psd"}, channels : ChannelArgs, method : Methods,
     window_length : WindowLengths(s), nperseg : NpersegArgs(s),
     noverlap : NoverlapArgs, output_stream_name : NameArgs,
     stream_type : {S_PSD}, filter_type : {<< >>}, buf_size : {0}]

ManipulatorConfigs(s) ==
    [kind : {"base"}, channels : ChannelArgs, method : {"none"},
     window_length : {0}, nperseg : {None}, noverlap : {None},
     output_stream_name : NameArgs,
     stream_type : StreamTypes, filter_type : {<< >>}, buf_size : {0}]

FilterConfigs(s) ==
    [kind : {"filter"}, channels : ChannelArgs, method : {"none"},
     window_length : WindowLengths(s), nperseg : {None}, noverlap : {None},
     output_stream_name : NameArgs,
     stream_type : {S_filter}, filter_type : FilterTypes,
     buf_size : IF IsSynthetic(s) THEN {DefaultBufSize} ELSE WindowLengths(s)]

NoConfig ==
    [kind |-> "none", channels |-> None, method |-> "none", window_length |-> 0,
     nperseg |-> None, noverlap |-> None, output_stream_name |-> << >>,
     stream_type |-> << >>, filter_type |-> << >>, buf_size |-> 0]

\* no get_stream_info call made
NoLookup ==
    [phase |-> "none", value |-> << >>, index |-> 0, resolved |-> << >>,
     result |-> None]

\* no plotting call made
NoPlot ==
    [fn |-> "none", phase |-> "none", inletOpen |-> FALSE, error |-> "none",
     info |-> [channel_count |-> 0, meta |-> << >>],
     channels |-> << >>, measure |-> "none", tickfactor |-> 0, fs |-> 0,
     save |-> FALSE, chunkwidth |-> 0, nPulls |-> 0, nRows |-> 0,
     buffer |-> << >>, plotted |-> << >>, y_vec |-> << >>, xticks |-> << >>,
     xlabels |-> << >>, firstUpdate |-> TRUE, saved |-> << >>]

NoStream ==
    [created |-> FALSE, name |-> << >>, type |-> << >>, channel_count |-> 0,
     nominal_srate |-> 0, meta |-> << >>]

(***************************************************************************)
(* psd (transforms.py): the wrapper that builds the output StreamInfo and  *)
(* starts psd_backend in a thread.                                         *)
(***************************************************************************)
\* mutant: the separator of StreamManipulator used by psd
PsdOutputNameDoubleDash(c, s) ==
    IF c.output_stream_name = S_default
    THEN s.name \o S_dashdash \o S_PSD
    ELSE c.output_stream_name

PsdOutputName(c, s) ==
    IF c.output_stream_name = S_default
    THEN s.name \o S_dashPSD
    ELSE c.output_stream_name

\* np.size(channels) of a flat list
NpSize(chans) == Len(chans)

PsdNumChan(c, s) ==
    IF IsNone(c.channels) THEN s.channel_count ELSE NpSize(Val(c.channels))

\* mutant: window_length written whatever the method
PsdNpersegMetaWindow(c) == IntToStr(c.window_length)
\* the segment length psd writes into the `nperseg` annotation
PsdNpersegMeta(c) ==
    IF c.method = "welch"
    THEN IF IsNone(c.nperseg)
         THEN IntToStr(c.window_length \div 8)
         ELSE IntToStr(Val(c.nperseg))
    ELSE IntToStr(c.window_length)

\* mutant: the nperseg child left out
PsdMetaWindowOnly(c) == << <<S_window_length, IntToStr(c.window_length)>> >>
\* psd: desc().append_child_value("window_length", ...) and ("nperseg", ...)
PsdMeta(c) ==
    << <<S_window_length, IntToStr(c.window_length)>>,
       <<S_nperseg, PsdNpersegMeta(c)>> >>

\* mutant: the sample rate not yet copied when the thread is started
PsdDescriptorNoRate(c, s) ==
    [created |-> TRUE, name |-> PsdOutputName(c, s), type |-> S_PSD,
     channel_count |-> PsdNumChan(c, s), nominal_srate |-> 0,
     meta |-> PsdMeta(c)]
\* psd: the StreamInfo and the children appended to its desc()
PsdDescriptor(c, s) ==
    [created |-> TRUE, name |-> PsdOutputName(c, s), type |-> S_PSD,
     channel_count |-> PsdNumChan(c, s), nominal_srate |-> s.nominal_srate,
     meta |-> PsdMeta(c)]

\* psd() never validates its arguments: it cannot raise for any of them
PsdSetupRaises(c, s) == FALSE

PsdSetup(w) ==
    /\ pc[w] = "idle"
    /\ \E c \in PsdConfigs(inStream) :
          /\ cfg' = [cfg EXCEPT ![w] = c]
          /\ IF PsdSetupRaises(c, inStream)
             THEN /\ pc' = [pc EXCEPT ![w] = "setup_failed"]
                  /\ error' = [error EXCEPT ![w] = "ValueError"]
                  /\ UNCHANGED <<outStream, started>>
             ELSE /\ outStream' = [outStream EXCEPT ![w] = PsdDescriptor(c, inStream)]
                  /\ started' = [started EXCEPT ![w] = @ + 1]
                  /\ pc' = [pc EXCEPT ![w] = "running"]
                  /\ UNCHANGED error
    /\ UNCHANGED <<inStream, buffer, nPulls, nRows, appended, taken, pushed, lookup, plot>>

(***************************************************************************)
(* StreamManipulator (templates.py) and custom_filter (filtering.py).      *)
(***************************************************************************)
ManipulatorNumChan(c, s) ==
    IF IsNone(c.channels) THEN s.channel_count ELSE NpSize(Val(c.channels))

ManipulatorOutputName(c, s) ==
    IF c.output_stream_name = S_default
    THEN s.name \o S_dashdash \o c.stream_type
    ELSE c.output_stream_name

\* StreamManipulator.initialize_output_stream
ManipulatorDescriptor(c, s) ==
    [created |-> TRUE, name |-> ManipulatorOutputName(c, s), type |-> c.stream_type,
     channel_count |-> ManipulatorNumChan(c, s), nominal_srate |-> s.nominal_srate,
     meta |-> << >>]

ManipulatorInit(w) ==
    /\ pc[w] = "idle"
    /\ \E c \in ManipulatorConfigs(inStream) :
          /\ cfg' = [cfg EXCEPT ![w] = c]
          /\ outStream' = [outStream EXCEPT ![w] = ManipulatorDescriptor(c, inStream)]
    /\ started' = [started EXCEPT ![w] = @ + 1]
    /\ pc' = [pc EXCEPT ![w] = "running"]
    /\ UNCHANGED <<inStream, buffer, nPulls, nRows, appended, taken, pushed,
                   error, lookup, plot>>

\* custom_filter.__init__: "_".join([filter_type, stream_type])
FilterStreamType(c) ==
    IF c.stream_type = S_filter
    THEN c.filter_type \o S_underscore \o c.stream_type
    ELSE c.stream_type

\* custom_filter.initialize_output_stream calls super().init_output_stream(),
\* a method no class defines: AttributeError, for every argument
FilterInitializeOutputStreamRaises(c) == TRUE

FilterInit(w) ==
    /\ pc[w] = "idle"
    /\ \E c \in FilterConfigs(inStream) :
          LET c1 == [c EXCEPT !.stream_type = FilterStreamType(c)]
          IN  /\ cfg' = [cfg EXCEPT ![w] = c1]
              /\ IF FilterInitializeOutputStreamRaises(c1)
                 THEN /\ pc' = [pc EXCEPT ![w] = "setup_failed"]
                      /\ error' = [error EXCEPT ![w] = "AttributeError"]
                      /\ UNCHANGED <<outStream, started>>
                 ELSE /\ outStream' = [outStream EXCEPT ![w] =
                              [ManipulatorDescriptor(c1, inStream) EXCEPT
                                  !.meta = << <<S_window_length,
                                                IntToStr(c1.window_length)>> >>]]
                      /\ started' = [started EXCEPT ![w] = @ + 1]
                      /\ pc' = [pc EXCEPT ![w] = "running"]
                      /\ UNCHANGED error
    /\ UNCHANGED <<inStream, buffer, nPulls, nRows, appended, taken, pushed, lookup, plot>>


(***************************************************************************)
(* The worker loops.  One action is one iteration of `while True`: the     *)
(* pull, the append, the window extraction, the transform and the push.    *)
(* An exception raised in the thread ends it (pc = "faulted", `error` the   *)
(* exception).                                                             *)
(***************************************************************************)

\* the rows of the next pull of n rows
PulledRows(w, n) == Range(nRows[w], nRows[w] + n)

\* `input_chunk[0] and np.shape(input_chunk)[1] > 0`: the sample list is
\* truthy when it has a row, and only then is np.shape evaluated: the pair
\* (samples, timestamps) becomes an object array of shape (2, rows) on the
\* NumPy releases the package was written for, so the second test repeats
\* the first.  (A release that refuses ragged input raises there instead;
\* the thread then ends as it does in PullFault.)
\* mutant: the emptiness test dropped
ChunkAvailableAlways(chunk) == TRUE
ChunkAvailable(chunk) == chunk # << >> /\ Len(chunk) > 0

\* the same test in StreamManipulator._backend: `chunk[0] and len(chunk) > 0`,
\* where len(chunk) is the length of the (samples, timestamps) pair
BaseChunkAvailable(chunk) == chunk # << >> /\ 2 > 0

\* np.append(buffer, chunk, axis=0) on a buffer created as np.empty((0, 5)):
\* ValueError unless the chunk's rows have BufferCols columns
NpAppendRaises(ncols) == ncols # BufferCols
NpAppend(buf, chunk) == buf \o chunk

\* mutant: one module-level buffer, the first worker's, read by every worker
SharedBuffer(w) == buffer["w1"]
\* `buffer` is a local name of the thread's target: each thread reads its own
LocalBuffer(w) == buffer[w]

\* `if len(buffer) >= window_length`
WindowReady(buf, wl) == Len(buf) >= wl
\* mutant: the newest rows instead of the oldest
TakeDataNewest(buf, wl) == SliceFrom(buf, Len(buf) - wl)
\* `data = buffer[0:window_length]`
TakeData(buf, wl) == Slice(buf, 0, wl)
\* mutant: one row too many dropped
TakeRestOffByOne(buf, wl) == SliceFrom(buf, wl + 1)
\* `buffer = buffer[window_length:]`
TakeRest(buf, wl) == SliceFrom(buf, wl)

\* psd_backend's `channels`: zero-based indices
BackendChannels(c, s) ==
    IF IsNone(c.channels)
    THEN Range(0, s.channel_count)
    ELSE [i \in 1..Len(Val(c.channels)) |-> Val(c.channels)[i] - 1]

\* a[idx] on an axis of length n: Python counts a negative idx from the end
PyIndexRaises(idx, n) == idx >= n \/ idx < 0 - n
PyIndex(idx, n) == IF idx < 0 THEN idx + n ELSE idx

\* mutant: the bin at frequency zero left out
PeriodogramRowsNoDc(c) == c.window_length \div 2
\* len(np.fft.rfft(x, n=window_length))
PeriodogramRows(c) == c.window_length \div 2 + 1

\* mutant: the periodogram's window, window_length long, when nperseg is None
WelchSegmentWindow(c) ==
    IF IsNone(c.nperseg) THEN c.window_length ELSE Val(c.nperseg)
\* the length of the window array handed to signal.welch, which is the
\* segment length welch uses
WelchSegment(c) ==
    IF IsNone(c.nperseg) THEN c.window_length \div 8 ELSE Val(c.nperseg)
\* signal.welch: noverlap defaults to nperseg // 2
WelchNoverlap(c) ==
    IF IsNone(c.noverlap) THEN WelchSegment(c) \div 2 ELSE Val(c.noverlap)
\* signal.welch raises when the window is longer than the signal or
\* noverlap >= nperseg (which includes an empty window)
WelchRaises(c, data) ==
    WelchSegment(c) > Len(data) \/ WelchNoverlap(c) >= WelchSegment(c)
\* len(pxx): nfft // 2 + 1 with nfft = nperseg
WelchRows(c) == WelchSegment(c) \div 2 + 1

\* the input column read for output column i (1-based here, i - 1 in the code)
PeriodogramColumn(chans, i, ncols) == PyIndex(chans[i], ncols)
WelchColumn(chans, i, ncols) == i - 1

ChannelRaises(c, chans, i, ncols, data) ==
    IF c.method = "periodogram" THEN PyIndexRaises(chans[i], ncols)
    ELSE IF c.method = "welch" THEN PyIndexRaises(i - 1, ncols) \/ WelchRaises(c, data)
    ELSE FALSE

PsdRaises(c, s, data) ==
    LET chans == BackendChannels(c, s)
    IN  \E i \in 1..NpSize(chans) : ChannelRaises(c, chans, i, BufferCols, data)

\* the chunk psd_backend pushes for one window: np.transpose(psd).tolist()
PsdChunk(c, s, data) ==
    LET chans == BackendChannels(c, s)
    IN  IF c.method = "periodogram"
        THEN [nrows |-> PeriodogramRows(c),
              cols |-> [i \in 1..NpSize(chans) |-> PeriodogramColumn(chans, i, BufferCols)],
              src |-> data, stamps |-> FALSE]
        ELSE IF c.method = "welch"
        THEN [nrows |-> WelchRows(c),
              cols |-> [i \in 1..NpSize(chans) |-> WelchColumn(chans, i, BufferCols)],
              src |-> data, stamps |-> FALSE]
        ELSE [nrows |-> 0, cols |-> << >>, src |-> data, stamps |-> FALSE]

\* the exception a window raises in psd_backend: that of the first channel
\* of the loop that raises (IndexError from data[...], ValueError from welch)
PsdError(c, s, data) ==
    LET chans == BackendChannels(c, s)
        bad == {i \in 1..NpSize(chans) : ChannelRaises(c, chans, i, BufferCols, data)}
        first == CHOOSE i \in bad : \A j \in bad : i <= j
        idx == IF c.method = "periodogram" THEN chans[first] ELSE first - 1
    IN  IF PyIndexRaises(idx, BufferCols) THEN "IndexError" ELSE "ValueError"

\* mutant: the exception caught and the loop carried on
FaultSwallowed(w, e) ==
    /\ error' = [error EXCEPT ![w] = e]
    /\ UNCHANGED pc
\* an exception nothing catches ends the thread: run() returns, the loop is
\* never entered again
Fault(w, e) ==
    /\ pc' = [pc EXCEPT ![w] = "faulted"]
    /\ error' = [error EXCEPT ![w] = e]

\* outlet.push_chunk(chunk): the chunk goes out, or the transport raises
Push(w, chunk) ==
    \/ /\ pushed' = [pushed EXCEPT ![w] = Append(@, chunk)]
       /\ UNCHANGED <<pc, error>>
    \/ /\ Fault(w, "TransportError")
       /\ UNCHANGED pushed

PsdLoop(w) ==
    /\ pc[w] = "running"
    /\ cfg[w].kind = "psd"
    /\ nPulls[w] < inStream.nchunks
    /\ \E n \in inStream.sizes :
          LET chunk == PulledRows(w, n)
              wl == cfg[w].window_length
              buf1 == NpAppend(LocalBuffer(w), chunk)
              data == TakeData(buf1, wl)
          IN  /\ nPulls' = [nPulls EXCEPT ![w] = @ + 1]
              /\ nRows' = [nRows EXCEPT ![w] = @ + n]
              /\ IF ~ChunkAvailable(chunk)
                 THEN UNCHANGED <<pc, error, buffer, appended, taken, pushed>>
                 ELSE IF NpAppendRaises(inStream.channel_count)
                 THEN /\ Fault(w, "ValueError")
                      /\ UNCHANGED <<buffer, appended, taken, pushed>>
                 ELSE /\ appended' = [appended EXCEPT ![w] = @ + n]
                      /\ IF WindowReady(buf1, wl)
                         THEN /\ buffer' = [buffer EXCEPT ![w] = TakeRest(buf1, wl)]
                              /\ taken' = [taken EXCEPT ![w] =
                                    Append(@, [win |-> data, avail |-> Len(buf1)])]
                              /\ IF PsdRaises(cfg[w], inStream, data)
                                 THEN /\ Fault(w, PsdError(cfg[w], inStream, data))
                                      /\ UNCHANGED pushed
                                 ELSE Push(w, PsdChunk(cfg[w], inStream, data))
                         ELSE /\ buffer' = [buffer EXCEPT ![w] = buf1]
                              /\ UNCHANGED <<pc, error, taken, pushed>>
    /\ UNCHANGED <<inStream, started, cfg, outStream, lookup, plot>>

\* custom_filter._backend, line 95: `channels` is not a name of the method's
\* scope (the list is self.channels): NameError at the first window
FilterComputeRaises(c) == TRUE
\* custom_filter._backend, line 109: push_chunk(output) runs after every
\* non-empty pull, also when no window was computed in this iteration;
\* `output` is bound only once an earlier window has been computed (and
\* pushed): until then UnboundLocalError
FilterOutputUnbound(p) == p = << >>

FilterLoop(w) ==
    /\ pc[w] = "running"
    /\ cfg[w].kind = "filter"
    /\ nPulls[w] < inStream.nchunks
    /\ \E n \in inStream.sizes :
          LET chunk == PulledRows(w, n)
              bs == cfg[w].buf_size
              buf1 == NpAppend(LocalBuffer(w), chunk)
              data == TakeData(buf1, bs)
          IN  /\ nPulls' = [nPulls EXCEPT ![w] = @ + 1]
              /\ nRows' = [nRows EXCEPT ![w] = @ + n]
              /\ IF ~ChunkAvailable(chunk)
                 THEN UNCHANGED <<pc, error, buffer, appended, taken, pushed>>
                 ELSE IF NpAppendRaises(inStream.channel_count)
                 THEN /\ Fault(w, "ValueError")
                      /\ UNCHANGED <<buffer, appended, taken, pushed>>
                 ELSE /\ appended' = [appended EXCEPT ![w] = @ + n]
                      /\ IF WindowReady(buf1, bs)
                         THEN /\ buffer' = [buffer EXCEPT ![w] = TakeRest(buf1, bs)]
                              /\ taken' = [taken EXCEPT ![w] =
                                    Append(@, [win |-> data, avail |-> Len(buf1)])]
                              /\ IF FilterComputeRaises(cfg[w])
                                 THEN /\ Fault(w, "NameError")
                                      /\ UNCHANGED pushed
                                 ELSE Push(w, [nrows |-> Len(data),
                                               cols |-> Range(0, NpSize(BackendChannels(cfg[w], inStream))),
                                               src |-> data, stamps |-> FALSE])
                         ELSE /\ buffer' = [buffer EXCEPT ![w] = buf1]
                              /\ UNCHANGED taken
                              /\ IF FilterOutputUnbound(pushed[w])
                                 THEN /\ Fault(w, "UnboundLocalError")
                                      /\ UNCHANGED pushed
                                 ELSE Push(w, pushed[w][Len(pushed[w])])
    /\ UNCHANGED <<inStream, started, cfg, outStream, lookup, plot>>

\* StreamManipulator._backend: push_chunk(chunk) hands over the pair
\* (samples, timestamps) that pull_chunk returned.  Whether the transport
\* takes a payload of that shape or raises is outside this program: Push
\* allows both.
BaseChunk(chunk, s) ==
    [nrows |-> Len(chunk), cols |-> Range(0, s.channel_count), src |-> chunk,
     stamps |-> TRUE]

BaseLoop(w) ==
    /\ pc[w] = "running"
    /\ cfg[w].kind = "base"
    /\ nPulls[w] < inStream.nchunks
    /\ \E n \in inStream.sizes :
          LET chunk == PulledRows(w, n)
          IN  /\ nPulls' = [nPulls EXCEPT ![w] = @ + 1]
              /\ nRows' = [nRows EXCEPT ![w] = @ + n]
              /\ IF BaseChunkAvailable(chunk)
                 THEN Push(w, BaseChunk(chunk, inStream))
                 ELSE UNCHANGED <<pc, error, pushed>>
    /\ UNCHANGED <<inStream, started, cfg, outStream, buffer, appended, taken, lookup, plot>>

\* inlet.pull_chunk() raises (the transport fails): the thread ends
PullFault(w) ==
    /\ pc[w] = "running"
    /\ nPulls[w] < inStream.nchunks
    /\ nPulls' = [nPulls EXCEPT ![w] = @ + 1]
    /\ Fault(w, "TransportError")
    /\ UNCHANGED <<inStream, started, cfg, outStream, buffer, nRows, appended,
                   taken, pushed, lookup, plot>>

(***************************************************************************)
(* One iteration of a worker loop as a function of what the thread can     *)
(* reach: its arguments, its locals and what its own inlet and outlet do   *)
(* (n rows pulled; `fail` says whether the pull or the push raises).       *)
(***************************************************************************)
LocalState(w) ==
    [pc |-> pc[w], error |-> error[w], buffer |-> buffer[w],
     nPulls |-> nPulls[w], nRows |-> nRows[w], appended |-> appended[w],
     taken |-> taken[w], pushed |-> pushed[w]]

LocalStateNext(w) ==
    [pc |-> pc'[w], error |-> error'[w], buffer |-> buffer'[w],
     nPulls |-> nPulls'[w], nRows |-> nRows'[w], appended |-> appended'[w],
     taken |-> taken'[w], pushed |-> pushed'[w]]

Faulted(l, e) == [l EXCEPT !.pc = "faulted", !.error = e]

Pushed(l, chunk, fail) ==
    IF fail = "push" THEN Faulted(l, "TransportError")
    ELSE [l EXCEPT !.pushed = Append(@, chunk)]

\* psd_backend and custom_filter._backend
AloneWindowStep(c, s, l, n, fail) ==
    LET chunk == Range(l.nRows, l.nRows + n)
        ws == IF c.kind = "psd" THEN c.window_length ELSE c.buf_size
        l1 == [l EXCEPT !.nPulls = @ + 1, !.nRows = @ + n]
        buf1 == l.buffer \o chunk
        data == TakeData(buf1, ws)
        kept == [l1 EXCEPT !.appended = @ + n, !.buffer = buf1]
        cut == [l1 EXCEPT !.appended = @ + n, !.buffer = TakeRest(buf1, ws),
                          !.taken = Append(@, [win |-> data, avail |-> Len(buf1)])]
    IN  IF ~ChunkAvailable(chunk) THEN l1
        ELSE IF NpAppendRaises(s.channel_count) THEN Faulted(l1, "ValueError")
        ELSE IF WindowReady(buf1, ws)
        THEN IF c.kind = "psd"
             THEN IF PsdRaises(c, s, data)
                  THEN Faulted(cut, PsdError(c, s, data))
                  ELSE Pushed(cut, PsdChunk(c, s, data), fail)
             ELSE IF FilterComputeRaises(c)
                  THEN Faulted(cut, "NameError")
                  ELSE Pushed(cut, [nrows |-> Len(data),
                                    cols |-> Range(0, NpSize(BackendChannels(c, s))),
                                    src |-> data, stamps |-> FALSE], fail)
        ELSE IF c.kind = "psd" THEN kept
             ELSE IF FilterOutputUnbound(l.pushed)
                  THEN Faulted(kept, "UnboundLocalError")
                  ELSE Pushed(kept, l.pushed[Len(l.pushed)], fail)

\* StreamManipulator._backend
AloneBaseStep(c, s, l, n, fail) ==
    LET chunk == Range(l.nRows, l.nRows + n)
        l1 == [l EXCEPT !.nPulls = @ + 1, !.nRows = @ + n]
    IN  IF BaseChunkAvailable(chunk) THEN Pushed(l1, BaseChunk(chunk, s), fail)
        ELSE l1

AloneStep(c, s, l, n, fail) ==
    IF fail = "pull" THEN Faulted([l EXCEPT !.nPulls = @ + 1], "TransportError")
    ELSE IF c.kind = "base" THEN AloneBaseStep(c, s, l, n, fail)
    ELSE AloneWindowStep(c, s, l, n, fail)

(***************************************************************************)
(* get_stream_info (streamstaff.py).  resolve_byprop belongs to the        *)
(* transport: it answers with any list of distinct streams, here numbered. *)
(***************************************************************************)
LookupValues == {S_EEG, S_PSD}
\* index may be any int; Python counts a negative one from the end
LookupIndexes == (0 - 1)..MaxIndex

ResolvedLists ==
    {s \in UNION {[1..n -> 1..MaxStreams] : n \in 0..MaxStreams} :
        \A i \in 1..Len(s) : \A j \in 1..Len(s) : i # j => s[i] # s[j]}

\* the two `raise RuntimeError`
GetStreamInfoRaises(stream, index) ==
    Len(stream) = 0 \/ Len(stream) < index + 1

\* mutant: the index ignored
GetStreamInfoFirst(stream, index) == stream[1]
\* `return stream[index]`
GetStreamInfoResult(stream, index) == stream[PyIndex(index, Len(stream)) + 1]

GetStreamInfo ==
    /\ lookup.phase = "called"
    /\ \E stream \in ResolvedLists :
          lookup' = [lookup EXCEPT
              !.resolved = stream,
              !.phase = IF GetStreamInfoRaises(stream, lookup.index)
                        THEN "raised" ELSE "returned",
              !.result = IF GetStreamInfoRaises(stream, lookup.index)
                         THEN None
                         ELSE Some(GetStreamInfoResult(stream, lookup.index))]
    /\ UNCHANGED <<inStream, pc, started, cfg, outStream, buffer, nPulls, nRows,
                   appended, taken, pushed, error, plot>>

(***************************************************************************)
(* plotTimeDomain and plotFreqDomain (plotting.py).  A call runs in the    *)
(* caller's thread: the set-up up to fig.show() is one step, every         *)
(* iteration of `while True` is one step.  Rows are arrival indices on the *)
(* plot's own inlet; -1 stands for the zeros a plot starts with.  Whether  *)
(* the user has closed the window (fig.isVisible()) is the environment's   *)
(* choice at the end of every iteration.                                   *)
(***************************************************************************)
\* the streams a caller plots: the output stream of a transform
PlotInfo(d) == [channel_count |-> d.channel_count, meta |-> d.meta]

TimeInfos ==
    UNION {{PlotInfo(ManipulatorDescriptor(c, s)) :
              c \in {m \in ManipulatorConfigs(s) : IsNone(m.channels)}} :
           s \in IrregularStreams}

FreqInfos ==
    TimeInfos \cup
    UNION {{PlotInfo(PsdDescriptor(c, s)) :
              c \in {m \in PsdConfigs(s) : IsNone(m.channels)}} :
           s \in IrregularStreams}

\* (timewin, tickfactor)
TimeArgs == {<<2, 1>>, <<4, 2>>, <<2, 2>>, <<3, 2>>}
FsArgs == {1, 2}
Measures == {"dB", "W/Hz", "bogus"}

\* `channels`: zero-based indices
PlotChannels(channels, info) ==
    IF IsNone(channels)
    THEN Range(0, info.channel_count)
    ELSE [i \in 1..Len(Val(channels)) |-> Val(channels)[i] - 1]

\* `(channel < 0) or (channel > channel_count - 1)` for some channel
PlotChannelOutOfRange(chans, info) ==
    \E i \in 1..Len(chans) :
        chans[i] < 0 \/ chans[i] > info.channel_count - 1

\* XTICKS = (int)((timewin + 1) / tickfactor)
XTicks(timewin, tickfactor) == (timewin + 1) \div tickfactor

\* int(child_value("nperseg")) raises ValueError on the "" of a missing child
PlotWindowLengthRaises(info) == ChildValue(info.meta, S_nperseg) = << >>
\* chunkwidth = int(window_length / 2 + 1): the float is cut to an int
PlotChunkwidth(info) ==
    LET window_length == StrToInt(ChildValue(info.meta, S_nperseg))
    IN  (window_length + 2) \div 2

PlotReturned(p, open) == [p EXCEPT !.phase = "returned", !.inletOpen = open]
PlotRaised(p, e) == [p EXCEPT !.phase = "raised", !.error = e]

PlotTimeDomainSetup ==
    /\ plot.phase = "none"
    /\ \E info \in TimeInfos, channels \in ChannelArgs, ta \in TimeArgs,
          fs \in FsArgs, save \in BOOLEAN :
          LET timewin == ta[1]
              tickfactor == ta[2]
              chans == PlotChannels(channels, info)
              p0 == [NoPlot EXCEPT !.fn = "time", !.inletOpen = TRUE,
                                   !.info = info, !.channels = chans,
                                   !.tickfactor = tickfactor, !.fs = fs,
                                   !.save = save]
          IN  plot' =
                IF timewin % tickfactor # 0 THEN PlotReturned(p0, TRUE)
                ELSE IF PlotChannelOutOfRange(chans, info) THEN PlotReturned(p0, TRUE)
                ELSE [p0 EXCEPT
                        !.phase = "loop",
                        \* tick positions, in samples (seconds times fs)
                        !.xticks = [x \in 1..XTicks(timewin, tickfactor) |->
                                       (x - 1) * tickfactor * fs],
                        !.xlabels = [x \in 1..XTicks(timewin, tickfactor) |-> 0],
                        !.y_vec = [x \in 1..(timewin * fs + 1) |-> 0 - 1],
                        !.saved = IF save THEN <<0 - 1>> ELSE << >>]
    /\ UNCHANGED <<inStream, pc, started, cfg, outStream, buffer, nPulls, nRows,
                   appended, taken, pushed, error, lookup>>

\* `if chunk:` tests the pair (samples, timestamps), which is never empty:
\* a pull of no rows goes on to chunkdata[0] on an empty array (IndexError)
TimeChunkAvailable(chunk) == 2 > 0

\* pd.Series(chunk[0][0], index=df.columns): one value per channel of the
\* stream against one column per selected channel
SaveRaises(p) == NpSize(p.channels) # p.info.channel_count

PlotTimeDomainLoop ==
    /\ plot.fn = "time"
    /\ plot.phase = "loop"
    /\ plot.nPulls < PlotPulls
    /\ \E n \in 0..MaxChunk, closed \in BOOLEAN :
          LET chunk == Range(plot.nRows, plot.nRows + n)
              p1 == [plot EXCEPT !.nPulls = @ + 1, !.nRows = @ + n]
              moved == [i \in 1..Len(plot.xticks) |-> plot.xticks[i] - n]
              crossed == moved[1] < 0
              xticks1 == IF crossed
                         THEN Append(Tail(moved),
                                     moved[Len(moved)] + plot.tickfactor * plot.fs)
                         ELSE moved
              xlabels1 == IF crossed /\ ~plot.firstUpdate
                          THEN Tail(Append(plot.xlabels,
                                   plot.xlabels[Len(plot.xlabels)] + plot.tickfactor))
                          ELSE plot.xlabels
              y1 == SliceFrom(plot.y_vec \o chunk, Len(chunk))
              p2 == [p1 EXCEPT
                        !.xticks = xticks1, !.xlabels = xlabels1,
                        !.firstUpdate = IF crossed THEN FALSE ELSE @,
                        !.y_vec = y1,
                        !.saved = IF plot.save THEN Append(@, chunk[1]) ELSE @]
          IN  plot' =
                IF ~TimeChunkAvailable(chunk)
                THEN (IF closed THEN PlotReturned(p1, FALSE) ELSE p1)
                ELSE IF chunk = << >> THEN PlotRaised(p1, "IndexError")
                ELSE IF plot.save /\ SaveRaises(plot) THEN PlotRaised(p1, "ValueError")
                ELSE IF crossed /\ Len(moved) = 1 THEN PlotRaised(p1, "IndexError")
                ELSE IF closed THEN PlotReturned(p2, FALSE)
                ELSE p2
    /\ UNCHANGED <<inStream, pc, started, cfg, outStream, buffer, nPulls, nRows,
                   appended, taken, pushed, error, lookup>>

PlotFreqDomainSetup ==
    /\ plot.phase = "none"
    /\ \E info \in FreqInfos, channels \in ChannelArgs, measure \in Measures :
          LET chans == PlotChannels(channels, info)
              p0 == [NoPlot EXCEPT !.fn = "freq", !.inletOpen = TRUE,
                                   !.info = info, !.channels = chans,
                                   !.measure = measure]
          IN  plot' =
                IF PlotChannelOutOfRange(chans, info) THEN PlotReturned(p0, TRUE)
                ELSE IF PlotWindowLengthRaises(info) THEN PlotRaised(p0, "ValueError")
                ELSE [p0 EXCEPT !.phase = "loop",
                                !.chunkwidth = PlotChunkwidth(info)]
    /\ UNCHANGED <<inStream, pc, started, cfg, outStream, buffer, nPulls, nRows,
                   appended, taken, pushed, error, lookup>>

\* `not (np.size(chunk[0]) == 0)`
FreqChunkAvailable(chunk) == Len(chunk) # 0

\* `while np.size(buffer, 0) > chunkwidth`
FreqWindowReady(buf, chunkwidth) == Len(buf) > chunkwidth

RECURSIVE FreqDrain(_, _, _)
\* the inner while loop run to its end: the buffer left and the windows
\* plotted, oldest first
FreqDrain(buf, chunkwidth, done) ==
    IF FreqWindowReady(buf, chunkwidth)
    THEN FreqDrain(TakeRest(buf, chunkwidth), chunkwidth,
                   Append(done, [win |-> TakeData(buf, chunkwidth),
                                 avail |-> Len(buf)]))
    ELSE [buffer |-> buf, plotted |-> done]

\* neither 'dB' nor 'W/Hz': the function prints and returns from inside the
\* channel loop of the first window
MeasureUnknown(measure) == measure \notin {"dB", "W/Hz"}

PlotFreqDomainLoop ==
    /\ plot.fn = "freq"
    /\ plot.phase = "loop"
    /\ plot.nPulls < PlotPulls
    /\ \E n \in 0..MaxChunk, closed \in BOOLEAN :
          LET chunk == Range(plot.nRows, plot.nRows + n)
              buf1 == IF FreqChunkAvailable(chunk) THEN plot.buffer \o chunk
                      ELSE plot.buffer
              p1 == [plot EXCEPT !.nPulls = @ + 1, !.nRows = @ + n]
              d == FreqDrain(buf1, plot.chunkwidth, plot.plotted)
          IN  plot' =
                IF /\ FreqWindowReady(buf1, plot.chunkwidth)
                   /\ MeasureUnknown(plot.measure)
                   /\ NpSize(plot.channels) > 0
                THEN PlotReturned([p1 EXCEPT
                                      !.buffer = TakeRest(buf1, plot.chunkwidth)], TRUE)
                ELSE IF closed
                THEN PlotReturned([p1 EXCEPT !.buffer = d.buffer,
                                             !.plotted = d.plotted], FALSE)
                ELSE [p1 EXCEPT !.buffer = d.buffer, !.plotted = d.plotted]
    /\ UNCHANGED <<inStream, pc, started, cfg, outStream, buffer, nPulls, nRows,
                   appended, taken, pushed, error, lookup>>

(***************************************************************************)
(* Specifications.                                                         *)
(***************************************************************************)
Active == {"w1"}

InitWorkers ==
    /\ pc = [w \in Workers |-> IF w \in Active THEN "idle" ELSE "absent"]
    /\ started = [w \in Workers |-> 0]
    /\ cfg = [w \in Workers |-> NoConfig]
    /\ outStream = [w \in Workers |-> NoStream]
    /\ buffer = [w \in Workers |-> << >>]
    /\ nPulls = [w \in Workers |-> 0]
    /\ nRows = [w \in Workers |-> 0]
    /\ appended = [w \in Workers |-> 0]
    /\ taken = [w \in Workers |-> << >>]
    /\ pushed = [w \in Workers |-> << >>]
    /\ error = [w \in Workers |-> "none"]
    /\ lookup = NoLookup
    /\ plot = NoPlot

\* a caller sets transforms up on an irregularly chunked stream
Init ==
    /\ inStream \in IrregularStreams
    /\ InitWorkers

Next ==
    \E w \in Workers :
        \/ PsdSetup(w)
        \/ ManipulatorInit(w)
        \/ FilterInit(w)
        \/ PsdLoop(w)
        \/ BaseLoop(w)
        \/ PullFault(w)

Spec == Init /\ [][Next]_vars

\* the same program on the synthetic stream that delivers 32 rows per pull
InitE2E ==
    /\ inStream \in SyntheticStreams
    /\ InitWorkers

SpecE2E == InitE2E /\ [][Next]_vars

\* the thread targets on their own: each backend entered directly with the
\* arguments and the descriptor its setup code prepares (custom_filter's
\* __init__ never gets as far as starting _backend)
BackendDescriptor(c, s) ==
    IF c.kind = "psd" THEN PsdDescriptor(c, s) ELSE ManipulatorDescriptor(c, s)

InitBackend ==
    /\ inStream \in IrregularStreams
    /\ \E c \in PsdConfigs(inStream) \cup ManipulatorConfigs(inStream)
                 \cup {[f EXCEPT !.stream_type = FilterStreamType(f)] :
                           f \in FilterConfigs(inStream)} :
          /\ cfg = [w \in Workers |-> IF w \in Active THEN c ELSE NoConfig]
          /\ outStream = [w \in Workers |->
                IF w \in Active THEN BackendDescriptor(c, inStream) ELSE NoStream]
    /\ pc = [w \in Workers |-> IF w \in Active THEN "running" ELSE "absent"]
    /\ started = [w \in Workers |-> IF w \in Active THEN 1 ELSE 0]
    /\ buffer = [w \in Workers |-> << >>]
    /\ nPulls = [w \in Workers |-> 0]
    /\ nRows = [w \in Workers |-> 0]
    /\ appended = [w \in Workers |-> 0]
    /\ taken = [w \in Workers |-> << >>]
    /\ pushed = [w \in Workers |-> << >>]
    /\ error = [w \in Workers |-> "none"]
    /\ lookup = NoLookup
    /\ plot = NoPlot

NextBackend ==
    \E w \in Workers :
        \/ PsdLoop(w)
        \/ FilterLoop(w)
        \/ BaseLoop(w)
        \/ PullFault(w)

SpecBackend == InitBackend /\ [][NextBackend]_vars


\* two workers on the same input stream, each with an inlet of its own
ConcurrentStreams ==
    [name : {S_EEG}, channel_count : ChannelCounts, nominal_srate : {256},
     sizes : {0..2}, nchunks : {ConcurrentPulls}]

ConcurrentConfigs(s) ==
    {c \in PsdConfigs(s) :
        /\ c.method = "periodogram"
        /\ c.output_stream_name = S_default
        /\ IsNone(c.nperseg) /\ IsNone(c.noverlap)
        /\ \/ c.window_length = 1 /\ IsNone(c.channels)
           \/ c.window_length = 2 /\ c.channels = Some(<<6>>)}
    \cup {c \in ManipulatorConfigs(s) :
            c.output_stream_name = S_default /\ IsNone(c.channels)}
    \cup {[f EXCEPT !.stream_type = FilterStreamType(f)] :
            f \in {c \in FilterConfigs(s) :
                     /\ c.filter_type = S_butter
                     /\ c.output_stream_name = S_default
                     /\ IsNone(c.channels)
                     /\ c.window_length = 2 /\ c.buf_size = 2}}

InitConcurrent ==
    /\ inStream \in ConcurrentStreams
    /\ cfg \in [Workers -> ConcurrentConfigs(inStream)]
    /\ outStream = [w \in Workers |-> BackendDescriptor(cfg[w], inStream)]
    /\ pc = [w \in Workers |-> "running"]
    /\ started = [w \in Workers |-> 1]
    /\ buffer = [w \in Workers |-> << >>]
    /\ nPulls = [w \in Workers |-> 0]
    /\ nRows = [w \in Workers |-> 0]
    /\ appended = [w \in Workers |-> 0]
    /\ taken = [w \in Workers |-> << >>]
    /\ pushed = [w \in Workers |-> << >>]
    /\ error = [w \in Workers |-> "none"]
    /\ lookup = NoLookup
    /\ plot = NoPlot

SpecConcurrent == InitConcurrent /\ [][NextBackend]_vars

\* a caller looks a stream up before any transform exists
InitLookup ==
    /\ inStream \in IrregularStreams
    /\ pc = [w \in Workers |-> "absent"]
    /\ started = [w \in Workers |-> 0]
    /\ cfg = [w \in Workers |-> NoConfig]
    /\ outStream = [w \in Workers |-> NoStream]
    /\ buffer = [w \in Workers |-> << >>]
    /\ nPulls = [w \in Workers |-> 0]
    /\ nRows = [w \in Workers |-> 0]
    /\ appended = [w \in Workers |-> 0]
    /\ taken = [w \in Workers |-> << >>]
    /\ pushed = [w \in Workers |-> << >>]
    /\ error = [w \in Workers |-> "none"]
    /\ lookup \in [phase : {"called"}, value : LookupValues, index : LookupIndexes,
                    resolved : {<< >>}, result : {None}]
    /\ plot = NoPlot

NextLookup == GetStreamInfo

SpecLookup == InitLookup /\ [][NextLookup]_vars

\* a caller plots the output stream of a transform
InitPlot ==
    /\ inStream \in IrregularStreams
    /\ pc = [w \in Workers |-> "absent"]
    /\ started = [w \in Workers |-> 0]
    /\ cfg = [w \in Workers |-> NoConfig]
    /\ outStream = [w \in Workers |-> NoStream]
    /\ buffer = [w \in Workers |-> << >>]
    /\ nPulls = [w \in Workers |-> 0]
    /\ nRows = [w \in Workers |-> 0]
    /\ appended = [w \in Workers |-> 0]
    /\ taken = [w \in Workers |-> << >>]
    /\ pushed = [w \in Workers |-> << >>]
    /\ error = [w \in Workers |-> "none"]
    /\ lookup = NoLookup
    /\ plot = NoPlot

NextPlot ==
    \/ PlotTimeDomainSetup
    \/ PlotTimeDomainLoop
    \/ PlotFreqDomainSetup
    \/ PlotFreqDomainLoop

SpecPlot == InitPlot /\ [][NextPlot]_vars

(***************************************************************************)
(* Properties.                                                             *)
(***************************************************************************)

\* C1: in the PSD and filter workers, the k-th window sliced off the buffer
\* is exactly rows [(k-1)*w, k*w) of the appended rows (the oldest w rows),
\* it is sliced only when at least w rows are buffered, and what stays in
\* the buffer is the rest in arrival order, n - k*w rows (w is window_length
\* in psd_backend and buf_size in custom_filter._backend).
C1_WindowExtractionFifo ==
    \A w \in Workers :
        cfg[w].kind \in {"psd", "filter"} =>
            LET ws == IF cfg[w].kind = "psd" THEN cfg[w].window_length
                      ELSE cfg[w].buf_size
                k == Len(taken[w])
            IN  /\ \A i \in 1..k :
                      /\ taken[w][i].win = [j \in 1..ws |-> (i - 1) * ws + j - 1]
                      /\ taken[w][i].avail >= ws
                /\ Len(buffer[w]) = appended[w] - k * ws
                /\ \A j \in 1..Len(buffer[w]) : buffer[w][j] = k * ws + j - 1

C1_Witness ==
    \E w \in Workers :
        /\ cfg[w].kind = "psd"
        /\ Len(taken[w]) >= 2
        /\ Len(buffer[w]) >= 2

\* C2: the i-th chunk a PSD or filter worker pushes is computed from input
\* rows [(i-1)*w, i*w): pushes follow window order, none skipped or repeated.
C2_PushesInWindowOrder ==
    \A w \in Workers :
        cfg[w].kind \in {"psd", "filter"} =>
            LET ws == IF cfg[w].kind = "psd" THEN cfg[w].window_length
                      ELSE cfg[w].buf_size
            IN  \A i \in 1..Len(pushed[w]) :
                    pushed[w][i].src = [j \in 1..ws |-> (i - 1) * ws + j - 1]

C2_Witness ==
    \E w \in Workers :
        /\ cfg[w].kind = "psd"
        /\ cfg[w].method = "periodogram"
        /\ Len(pushed[w]) >= 2
        /\ buffer[w] # << >>

\* C3: a pull that returns zero rows (the pull count grows, the row count
\* does not, the worker runs on) changes neither the buffer nor the windows
\* extracted nor the chunks pushed, in each of the three worker loops.
C3_EmptyPullNoEffect ==
    [][\A w \in Workers :
          (/\ nPulls'[w] = nPulls[w] + 1
           /\ nRows'[w] = nRows[w]
           /\ pc'[w] = "running")
          => /\ buffer'[w] = buffer[w]
             /\ appended'[w] = appended[w]
             /\ taken'[w] = taken[w]
             /\ pushed'[w] = pushed[w]]_vars

\* with window_length 1 every non-empty pull extracts a window, so more
\* pulls than windows means that some pull returned no row; rows are waiting
C3_Witness ==
    \E w \in Workers :
        /\ pc[w] = "running"
        /\ cfg[w].kind = "psd"
        /\ cfg[w].window_length = 1
        /\ nPulls[w] > Len(taken[w])
        /\ Len(buffer[w]) >= 1

\* C4: at each pull the buffer of a running PSD or filter worker holds fewer
\* than window_length rows (every full window was extracted before).
C4_BufferBelowWindowAtPull ==
    \A w \in Workers :
        (pc[w] = "running" /\ cfg[w].kind \in {"psd", "filter"}) =>
            Len(buffer[w]) <
                (IF cfg[w].kind = "psd" THEN cfg[w].window_length
                 ELSE cfg[w].buf_size)

\* C5: on a 4-channel stream delivering 32-row chunks, a periodogram PSD
\* worker with window_length 256 buffers every row it pulls, has pushed
\* nothing before the 8th chunk, and has pushed exactly one chunk of 129 rows
\* with one column per selected channel once the 8th chunk is pulled.
C5_EndToEndFourChannels ==
    \A w \in Workers :
        (/\ inStream.channel_count = 4
         /\ cfg[w].kind = "psd"
         /\ cfg[w].method = "periodogram"
         /\ cfg[w].window_length = 256
         /\ IsNone(cfg[w].channels)
         /\ nRows[w] <= 8 * 32)
        => /\ appended[w] = nRows[w]
           /\ nRows[w] < 8 * 32 => pushed[w] = << >>
           /\ nRows[w] = 8 * 32 =>
                 /\ Len(pushed[w]) = 1
                 /\ pushed[w][1].nrows = 129
                 /\ Len(pushed[w][1].cols) = outStream[w].channel_count

\* C6: a PSD transform requested with an unsupported method fails in setup:
\* no thread is started, nothing is pulled and nothing is pushed.
C6_UnsupportedMethodFailsAtSetup ==
    \A w \in Workers :
        (cfg[w].kind = "psd" /\ cfg[w].method \notin {"periodogram", "welch"})
        => /\ pc[w] = "setup_failed"
           /\ started[w] = 0
           /\ nPulls[w] = 0
           /\ pushed[w] = << >>

\* C7: a PSD transform given 1-based channel numbers reads column c - 1 for
\* number c, and a request with a number < 1 or > channel_count fails in
\* setup and never reads a column.
C7_ChannelNumbersValidated ==
    \A w \in Workers :
        (cfg[w].kind = "psd" /\ cfg[w].method = "periodogram"
            /\ ~IsNone(cfg[w].channels))
        => LET sel == Val(cfg[w].channels)
           IN  IF \A i \in 1..Len(sel) :
                      1 <= sel[i] /\ sel[i] <= inStream.channel_count
               THEN \A k \in 1..Len(pushed[w]) :
                        pushed[w][k].cols = [i \in 1..Len(sel) |-> sel[i] - 1]
               ELSE pc[w] = "setup_failed" /\ pushed[w] = << >>

\* C8: with a valid channel selection, column i of every chunk a PSD worker
\* pushes (periodogram or welch) is computed from the i-th selected
\* zero-based input channel.
C8_ColumnsFollowSelection ==
    \A w \in Workers :
        (/\ cfg[w].kind \in {"psd", "filter"}
         /\ cfg[w].method \in {"periodogram", "welch", "none"}
         /\ \/ IsNone(cfg[w].channels)
            \/ \A i \in 1..Len(Val(cfg[w].channels)) :
                  /\ 1 <= Val(cfg[w].channels)[i]
                  /\ Val(cfg[w].channels)[i] <= inStream.channel_count)
        => \A k \in 1..Len(pushed[w]) :
              pushed[w][k].cols =
                  (IF IsNone(cfg[w].channels)
                   THEN [i \in 1..inStream.channel_count |-> i - 1]
                   ELSE [i \in 1..Len(Val(cfg[w].channels)) |->
                            Val(cfg[w].channels)[i] - 1])

\* C9: every chunk a worker pushes has as many columns as the channel count
\* declared in the worker's output stream descriptor.
C9_PushedColumnsMatchDescriptor ==
    \A w \in Workers :
        \A k \in 1..Len(pushed[w]) :
            Len(pushed[w][k].cols) = outStream[w].channel_count

\* C10 as stated: without an override the output stream is named
\* <input_name>--<transform_type>, with one it is named as the override.
C10_DefaultNameDoubleDash ==
    \A w \in Workers :
        outStream[w].created =>
            outStream[w].name =
                (IF cfg[w].output_stream_name = <<"d", "e", "f", "a", "u", "l", "t">>
                 THEN inStream.name \o <<"-", "-">> \o outStream[w].type
                 ELSE cfg[w].output_stream_name)

\* C10 as amended: without an override (output_stream_name left at
\* "default") a StreamManipulator names its output stream
\* <input_name>--<stream_type> and psd names it <input_name>-PSD (one dash);
\* with an override the name is exactly the override.
C10_DefaultNamePerTransform ==
    \A w \in Workers :
        outStream[w].created =>
            outStream[w].name =
                (IF cfg[w].output_stream_name = <<"d", "e", "f", "a", "u", "l", "t">>
                 THEN IF cfg[w].kind = "psd"
                      THEN inStream.name \o <<"-">> \o <<"P", "S", "D">>
                      ELSE inStream.name \o <<"-", "-">> \o cfg[w].stream_type
                 ELSE cfg[w].output_stream_name)

C10_Witness ==
    /\ \E w \in Workers :
          /\ cfg[w].kind = "psd"
          /\ cfg[w].output_stream_name = S_default
          /\ outStream[w].created
          /\ outStream[w].name = <<"E", "E", "G", "-", "P", "S", "D">>
          /\ pc[w] = "running"

\* C11: every chunk a PSD worker pushes with the periodogram method has
\* floor(n / 2) + 1 rows, n >= 1 being the window length: the row count r
\* is the one number with 2 * (r - 1) <= n <= 2 * (r - 1) + 1.
C11_PeriodogramRowCount ==
    \A w \in Workers :
        (cfg[w].kind = "psd" /\ cfg[w].method = "periodogram") =>
            \A k \in 1..Len(pushed[w]) :
                LET r == pushed[w][k].nrows
                    n == cfg[w].window_length
                IN  /\ n >= 1
                    /\ 2 * (r - 1) <= n
                    /\ n <= 2 * (r - 1) + 1

\* an even window length, whose count is n / 2 + 1, not (n + 1) / 2
C11_Witness ==
    \E w \in Workers :
        /\ cfg[w].kind = "psd"
        /\ cfg[w].method = "periodogram"
        /\ cfg[w].window_length = 2
        /\ Len(pushed[w]) >= 1
        /\ pushed[w][1].nrows = 2

C13_EveryStreamAnnotated ==
    \A w \in Workers :
        outStream[w].created =>
            /\ \E i \in 1..Len(outStream[w].meta) :
                  outStream[w].meta[i][1] = S_window_length
            /\ \E i \in 1..Len(outStream[w].meta) :
                  outStream[w].meta[i][1] = S_nperseg

\* C13 as amended: every output stream psd has created carries a
\* window_length and an nperseg annotation, and a psd worker that has been
\* started, has pulled or has pushed has an output stream that carries both.
C13_PsdStreamAnnotated ==
    \A w \in Workers :
        (/\ cfg[w].kind = "psd"
         /\ \/ outStream[w].created
            \/ started[w] > 0
            \/ nPulls[w] > 0
            \/ pushed[w] # << >>)
        =>     /\ outStream[w].created
               /\ \E i \in 1..Len(outStream[w].meta) :
                     outStream[w].meta[i][1] = S_window_length
               /\ \E i \in 1..Len(outStream[w].meta) :
                     outStream[w].meta[i][1] = S_nperseg

C13_Witness ==
    \E w \in Workers :
        /\ cfg[w].kind = "psd"
        /\ started[w] = 1
        /\ Len(pushed[w]) >= 1
        /\ Len(outStream[w].meta) = 2
        /\ outStream[w].meta[1][1] = S_window_length
        /\ outStream[w].meta[2][1] = S_nperseg

\* C14: for every valid configuration (a supported method or filter type,
\* no channel selection or channel numbers within 1..channel_count), the
\* butter filter with default arguments included, setup does not fail: it
\* has built the output descriptor and has started exactly one worker.
C14_ValidSetupStartsOneWorker ==
    \A w \in Workers :
        (/\ cfg[w].kind \in {"psd", "base", "filter"}
         /\ cfg[w].kind = "psd" => cfg[w].method \in {"periodogram", "welch"}
         /\ cfg[w].kind = "filter" => cfg[w].filter_type = <<"b", "u", "t", "t", "e", "r">>
         /\ \/ cfg[w].channels = << >>
            \/ \A i \in 1..Len(cfg[w].channels[1]) :
                  /\ 1 <= cfg[w].channels[1][i]
                  /\ cfg[w].channels[1][i] <= inStream.channel_count)
        => /\ pc[w] # "setup_failed"
           /\ outStream[w].created
           /\ started[w] = 1

C16_UnsupportedFilterRejectedAtSetup ==
    \A w \in Workers :
        (cfg[w].kind = "filter" /\ cfg[w].filter_type # <<"b", "u", "t", "t", "e", "r">>)
        => /\ pc[w] = "setup_failed"
           /\ error[w] = "ValueError"
           /\ started[w] = 0
           /\ nPulls[w] = 0
           /\ pushed[w] = << >>

\* C17: get_stream_info called with an index >= 0 returns the resolved
\* stream at position index when at least index + 1 streams were resolved,
\* and raises, returning no handle, when none or fewer than index + 1 were;
\* with the default index it returns the first resolved stream.
C17_StreamLookupByIndex ==
    (lookup.phase \in {"returned", "raised"} /\ lookup.index >= 0) =>
        /\ IF Len(lookup.resolved) >= lookup.index + 1
           THEN /\ lookup.phase = "returned"
                /\ lookup.result = <<lookup.resolved[lookup.index + 1]>>
           ELSE /\ lookup.phase = "raised"
                /\ lookup.result = << >>
        /\ (lookup.index = 0 /\ lookup.resolved # << >>) =>
               lookup.result = <<Head(lookup.resolved)>>

\* the third of three resolved streams is returned
C17_Witness ==
    /\ lookup.phase = "returned"
    /\ lookup.index = 2
    /\ lookup.resolved = <<3, 1, 2>>
    /\ lookup.result = <<2>>

\* C18: once an exception has been raised inside a worker (by a pull, by
\* the append, by the transform of a window, by a push), that worker makes
\* no further pull and no further push (it is never retried), and the step
\* in which the exception is raised pushes nothing.
C18_FaultedWorkerStops ==
    [][\A w \in Workers :
          /\ error[w] # "none" =>
                /\ nPulls'[w] = nPulls[w]
                /\ pushed'[w] = pushed[w]
                /\ error'[w] = error[w]
          /\ (error[w] = "none" /\ error'[w] # "none") =>
                pushed'[w] = pushed[w]]_vars

\* a worker that pushed, then failed at a later window, with pulls left
C18_Witness ==
    \E w \in Workers :
        /\ pc[w] = "faulted"
        /\ error[w] \in {"ValueError", "IndexError", "TransportError"}
        /\ Len(pushed[w]) >= 1
        /\ Len(taken[w]) > Len(pushed[w])
        /\ nPulls[w] < inStream.nchunks

\* C19: for every channel count C >= 1 of the input stream, a PSD or filter
\* worker appends every chunk it pulls (all pulled rows are rows appended to
\* the buffer), and it has not faulted on its first non-empty chunk.
C19_AppendForAnyChannelCount ==
    \A w \in Workers :
        (cfg[w].kind \in {"psd", "filter"} /\ inStream.channel_count >= 1) =>
            /\ appended[w] = nRows[w]
            /\ ~(pc[w] = "faulted" /\ nRows[w] > 0 /\ appended[w] = 0
                    /\ taken[w] = << >>)

\* C20: with two workers running concurrently on the same input stream,
\* under every interleaving, a step that changes a worker's state (its
\* buffer, its pushed chunks, its counters, its fault) is the step that
\* worker makes on its own from its own state on the chunk it pulled, and it
\* leaves the state of the other worker as it was, also when the step is a
\* fault.
C20_WorkersIndependent ==
    [][\A w \in Workers :
          LocalStateNext(w) # LocalState(w) =>
              /\ \E n \in inStream.sizes : \E fail \in {"none", "pull", "push"} :
                    LocalStateNext(w) = AloneStep(cfg[w], inStream, LocalState(w), n, fail)
              /\ \A v \in Workers \ {w} :
                    /\ LocalStateNext(v) = LocalState(v)
                    /\ cfg'[v] = cfg[v]
                    /\ outStream'[v] = outStream[v]]_vars

\* two PSD workers on the same stream: one has faulted, the other is running,
\* has pushed twice and holds other rows than the faulted one
C20_Witness ==
    \E w \in Workers : \E v \in Workers \ {w} :
        /\ cfg[w].kind = "psd" /\ cfg[v].kind = "psd"
        /\ pc[w] = "faulted"
        /\ taken[w] # << >>
        /\ pc[v] = "running"
        /\ Len(pushed[v]) >= 2
        /\ buffer[v] # buffer[w]

\* C21: the step that starts a worker's thread leaves the output stream
\* descriptor fully built (a name, a type, a channel count >= 1, the input's
\* sample rate, and for psd both annotations), and no step taken once the
\* thread is started, by setup or by the worker, changes the descriptor.
C21_DescriptorBuiltBeforeStart ==
    [][\A w \in Workers :
          /\ started'[w] > started[w] =>
                /\ outStream'[w].created
                /\ outStream'[w].name # << >>
                /\ outStream'[w].type # << >>
                /\ outStream'[w].channel_count >= 1
                /\ outStream'[w].nominal_srate = inStream.nominal_srate
                /\ cfg'[w].kind = "psd" =>
                      /\ ChildValue(outStream'[w].meta, S_window_length) # << >>
                      /\ ChildValue(outStream'[w].meta, S_nperseg) # << >>
          /\ started[w] >= 1 => outStream'[w] = outStream[w]]_vars

\* a started worker that has pulled three times, pushed, and still has the
\* descriptor it was started with
C21_Witness ==
    \E w \in Workers :
        /\ started[w] = 1
        /\ nPulls[w] = 3
        /\ Len(pushed[w]) >= 1
        /\ outStream[w].created
        /\ outStream[w].nominal_srate = 256

\* C22: whenever plotTimeDomain or plotFreqDomain has returned (an invalid
\* tickfactor, a channel number out of range, an unknown measurement unit,
\* the window closed), the inlet it opened is closed.
C22_InletClosedOnReturn ==
    (plot.fn \in {"time", "freq"} /\ plot.phase = "returned") => ~plot.inletOpen

\* C23: when plotFreqDomain (with a known measurement unit) goes to its next
\* pull, its buffer holds fewer than chunkwidth rows, and once chunkwidth
\* rows have been pulled the first window, the oldest chunkwidth rows, has
\* been plotted.
C23_FreqBufferBelowChunkwidth ==
    (/\ plot.fn = "freq"
     /\ plot.phase = "loop"
     /\ plot.measure \in {"dB", "W/Hz"})
    => /\ Len(plot.buffer) < plot.chunkwidth
       /\ plot.nRows >= plot.chunkwidth =>
             /\ plot.plotted # << >>
             /\ plot.plotted[1].win = [j \in 1..plot.chunkwidth |-> j - 1]

\* C24: for every PSD configuration (periodogram, welch without and with a
\* configured nperseg), every chunk psd_backend pushes has as many rows as
\* the chunkwidth plotFreqDomain derives from the `nperseg` annotation of
\* the worker's output stream.
C24_PushedRowsEqualChunkwidth ==
    \A w \in Workers :
        (cfg[w].kind = "psd" /\ cfg[w].method \in {"periodogram", "welch"}) =>
            \A k \in 1..Len(pushed[w]) :
                /\ ~PlotWindowLengthRaises(outStream[w])
                /\ pushed[w][k].nrows = PlotChunkwidth(outStream[w])

\* window_length 256, periodogram: annotation "256", 129 rows, chunkwidth 129
C24_Witness ==
    \E w \in Workers :
        /\ cfg[w].kind = "psd"
        /\ cfg[w].method = "periodogram"
        /\ ChildValue(outStream[w].meta, S_nperseg) = <<"2", "5", "6">>
        /\ Len(pushed[w]) >= 1
        /\ pushed[w][1].nrows = 129
        /\ PlotChunkwidth(outStream[w]) = 129

\* C25: in plotTimeDomain's loop, a pull that returns zero rows does not
\* raise and leaves the plotted data, the tick positions, the tick labels
\* and the saved rows as they were.
C25_TimeEmptyPullNoEffect ==
    [][(/\ plot.fn = "time"
        /\ plot.phase = "loop"
        /\ plot'.nPulls = plot.nPulls + 1
        /\ plot'.nRows = plot.nRows)
       => /\ plot'.phase # "raised"
          /\ plot'.y_vec = plot.y_vec
          /\ plot'.xticks = plot.xticks
          /\ plot'.xlabels = plot.xlabels
          /\ plot'.saved = plot.saved]_vars

\* C26: the chunks a base StreamManipulator worker has pushed are the
\* non-empty blocks of sample rows it pulled, in pull order, each once (up
\* to a fault they add up to the rows pulled), and a pushed payload holds
\* the sample rows only, not the timestamps.
C26_BasePassThroughSamplesOnly ==
    \A w \in Workers :
        cfg[w].kind = "base" =>
            /\ \A k \in 1..Len(pushed[w]) :
                  /\ pushed[w][k].src # << >>
                  /\ pushed[w][k].nrows = Len(pushed[w][k].src)
                  /\ pushed[w][k].src[1] =
                        (IF k = 1 THEN 0
                         ELSE pushed[w][k - 1].src[Len(pushed[w][k - 1].src)] + 1)
                  /\ ~pushed[w][k].stamps
            /\ pc[w] = "running" =>
                  nRows[w] = (IF pushed[w] = << >> THEN 0
                              ELSE pushed[w][Len(pushed[w])].src[
                                       Len(pushed[w][Len(pushed[w])].src)] + 1)

====
